---- MODULE Spec2Model ----
(***************************************************************************)
(* Matchmaking and message relay of global-comms: ChatService              *)
(* (server/services/chatService.ts) over DatabaseStorage                   *)
(* (server/storage.ts).                                                    *)
(*                                                                         *)
(* Every WebSocket message starts an async handler.  A handler runs        *)
(* without interruption from one `await` of a storage call to the next;    *)
(* the storage call itself is one SQL statement, executed atomically by    *)
(* the database at some moment between the call and the resumption.  The   *)
(* model therefore has, per handler, one step for each statement the       *)
(* database executes and one step for each resumption that reads or        *)
(* writes the in-memory registry.                                          *)
(***************************************************************************)
EXTENDS Integers, Sequences, FiniteSets, Bags, TLC

\* ---------------------------------------------------------------- bounds
MaxHandlers == 2     \* handlers in flight at the same time
MaxRequests == 3     \* client messages received in a run with interleaved handlers
MaxSerial == 4       \* client messages received in a run with serial handlers
MaxRelay == 3        \* client messages received in a run with typing and translation
MaxApi == 3          \* client messages and HTTP requests received in a run with the REST routes
MaxDirectory == 4    \* client messages and HTTP requests received in a run with a changing directory
MaxClient == 4       \* client messages received before the browsers' users stop acting
MaxConnections == 3  \* WebSockets the browser opens

\* ------------------------------------------------------------ the domain
Users == {"A", "B", "C"}          \* ids known to the user directory
Sockets == {"s1", "s2"}           \* connections the server accepts, in this order
Contents == {"hello"}
NoUser == "-"                     \* SQL NULL / undefined user id
NoLang == "-"                     \* no preferredLanguage in a request
NoRoom == 0                       \* undefined chatRoomId

\* users table (user directory) as it is at the start; the relay only reads it
firstName(u) == CASE u = "A" -> "Ann" [] u = "B" -> NoUser [] OTHER -> "Cy"
lastName(u) == CASE u = "A" -> "Lee" [] OTHER -> NoUser
dirLanguage(u) == CASE u = "B" -> "fr-FR" [] OTHER -> "en-GB"

\* `${firstName || ''} ${lastName || ''}`.trim() || 'Anonymous'
DisplayName(u) ==
  LET parts == SelectSeq(<<firstName(u), lastName(u)>>, LAMBDA p : p # NoUser)
  IN IF parts = <<>> THEN <<"Anonymous">> ELSE parts

\* preferredLanguage values a join request may carry
JoinLangs == {NoLang}
\* the same when the language matters: none, or one no directory entry has
RequestLangs == {NoLang, "de-DE"}
\* an id with no row in the users table
UnknownUser == "Z"

\* ------------------------------------------------------------- the state
VARIABLES
  users,      \* ChatService.users: userId -> ChatUser, or Absent
  open,       \* sockets whose readyState is OPEN
  closed,     \* sockets whose 'close' event has fired
  rooms,      \* chat_rooms table in creation order; the id is the index
  log,        \* messages table in insertion order
  handlers,   \* bag of the async handlers suspended at an await
  last,       \* what the handler that completed in the last step did
  requests,   \* number of client messages received so far
  dictionary, \* dictionary_entries table in insertion order
  directory,  \* users table: the preferred_language of every user
  client      \* the state of one browser's useWebSocket hook

vars == <<users, open, closed, rooms, log, handlers, last, requests, dictionary,
          directory, client>>

\* socket.on('message'): one more message arrives on an OPEN socket
Receive(s) ==
  /\ s \in open
  /\ requests' = requests + 1

\* a registry entry; replaced is history only, no code reads it: the socket,
\* OPEN at that moment, of the entry for the same user that users.set last
\* overwrote with another socket
Absent == [socket |-> "-", chatRoomId |-> NoRoom, preferredLanguage |-> NoLang,
           replaced |-> "-"]
ChatUser(s, r, l, p) ==
  [socket |-> s, chatRoomId |-> r, preferredLanguage |-> l, replaced |-> p]

NoRow == [id |-> NoRoom, user1Id |-> NoUser, user2Id |-> NoUser, isActive |-> FALSE]
Row(id) == [id |-> id, user1Id |-> rooms[id].user1Id,
            user2Id |-> rooms[id].user2Id, isActive |-> rooms[id].isActive]

RoomIds == 1..Len(rooms)

Idle == [kind |-> "none"]

\* what the translation API answered: fetch threw, or response.ok, and in the
\* body responseStatus and responseData.translatedText
NoResponse == [thrown |-> FALSE, ok |-> FALSE, responseStatus |-> 0,
               translatedText |-> <<>>]

\* a suspended handler: its position (pc) and the locals it holds across awaits.
\* cur: the ChatUser object matchUsers holds in `user` is still users[userId].
\* createdAt: savedMessage.createdAt, the created_at of the record that
\* createMessage returned.
\* Six fields are history only, no code reads them: oldest (the oldest row
\* that matched when the SELECT ran), again (the session was already ended,
\* and the caller already released from it, when leave_chat arrived), paired
\* (the sender was in an active session of two when send_message arrived),
\* seq (the number of the client message that started the handler), own
\* (the request named the user registered on the connection it came in on)
\* and bound (the user was bound to the session when the cleanup started).
Suspended ==
  [kind |-> "none", pc |-> "-", sock |-> "-", userId |-> NoUser, room |-> NoRoom,
   lang |-> NoLang, content |-> "-", cur |-> FALSE, row |-> NoRow,
   other |-> NoUser, otherLang |-> NoLang, viaClose |-> FALSE,
   oldest |-> NoRoom, again |-> FALSE, paired |-> FALSE, seq |-> 0,
   isTyping |-> FALSE, resp |-> NoResponse, own |-> FALSE, createdAt |-> 0,
   bound |-> FALSE]

InFlight == BagToSet(handlers)
NumInFlight == BagCardinality(handlers)

Spawn(bag, h) == bag (+) SetToBag({h})
Retire(bag, h) == bag (-) SetToBag({h})
Move(bag, h, g) == Spawn(Retire(bag, h), g)

\* events on the wire: the socket they go out on and the user addressed
Event(sock, user, msg) == [to |-> sock, user |-> user, msg |-> msg]

\* ChatService.sendToUser: nothing unless registered on an OPEN socket
sendToUser(userId, msg) ==
  IF userId \in Users /\ users[userId] # Absent /\ users[userId].socket \in open
  THEN <<Event(users[userId].socket, userId, msg)>>
  ELSE <<>>

\* sendError writing to the socket whatever its readyState
sendErrorUnchecked(sock, error) ==
  <<Event(sock, NoUser, [type |-> "error", error |-> error])>>

\* ChatService.sendError
sendError(sock, error) ==
  IF sock \in open
  THEN <<Event(sock, NoUser, [type |-> "error", error |-> error])>>
  ELSE <<>>

\* the record of a handler that has run to its end: its locals, what it put
\* on the wire and how it ended
Done(h, sent, outcome) ==
  [kind |-> h.kind, sock |-> h.sock, userId |-> h.userId, room |-> h.room,
   lang |-> h.lang, content |-> h.content, row |-> h.row, other |-> h.other,
   otherLang |-> h.otherLang, viaClose |-> h.viaClose, again |-> h.again, paired |-> h.paired,
   seq |-> h.seq, isTyping |-> h.isTyping, resp |-> h.resp, own |-> h.own,
   createdAt |-> h.createdAt, bound |-> h.bound, sent |-> sent, outcome |-> outcome]

\* a message the client wrote to a socket; at: the number of client messages
\* the server had received when it was written (-1: nothing written yet)
NoMessage == [type |-> "none", socket |-> "-", chatRoomId |-> NoRoom, at |-> -1]

\* useWebSocket before its first effect has run.  ws is the WebSocket that
\* connect() created last (the n-th of the page) and readyState what its
\* handlers have seen of it; socket, isConnected, chatRoomId and
\* connectionStatus are the hook's useState values, reconnectTimeout is
\* reconnectTimeoutRef holding a pending timer, newChat the socket that a
\* pending startNewChat timer captured.  sent is the message written last;
\* prior is history only, no code reads it: the sessions the server found
\* the user bound to when it closed the connections of the page.
Unmounted ==
  [ws |-> 0, readyState |-> "none", socket |-> "-", isConnected |-> FALSE,
   chatRoomId |-> NoRoom, connectionStatus |-> "disconnected",
   reconnectTimeout |-> FALSE, newChat |-> "none", sent |-> NoMessage,
   prior |-> {}]

Init ==
  /\ client = Unmounted
  /\ users = [u \in Users |-> Absent]
  /\ open = {}
  /\ closed = {}
  /\ rooms = <<>>
  /\ log = <<>>
  /\ handlers = EmptyBag
  /\ last = Idle
  /\ requests = 0
  /\ dictionary = <<>>
  /\ directory = [u \in Users |-> dirLanguage(u)]

\* wss.on('connection'): a new socket, OPEN
Connect(s) ==
  /\ s \notin open \cup closed
  /\ s = "s1" \/ "s1" \in open \cup closed
  /\ open' = open \cup {s}
  /\ last' = Idle
  /\ UNCHANGED <<users, closed, rooms, log, handlers, requests, dictionary, directory, client>>

\* ------------------------------------------------------------------ join
\* the ChatUser object a suspended matchUsers holds is no longer users[u]
Unhook(U, h) ==
  IF h.kind = "join" /\ h.userId \in U /\ h.cur THEN [h EXCEPT !.cur = FALSE] ELSE h

\* the bag of handlers with every handler in it unhooked from the users U
UnhookAll(U, bag) ==
  LET img == {Unhook(U, h) : h \in BagToSet(bag)}
      Count(g) == LET src == {h \in BagToSet(bag) : Unhook(U, h) = g}
                      Sum[S \in SUBSET src] ==
                        IF S = {} THEN 0
                        ELSE LET x == CHOOSE y \in S : TRUE
                             IN bag[x] + Sum[S \ {x}]
                  IN Sum[src]
  IN [g \in img |-> Count(g)]

\* handleUserJoin returning without an answer when the userId is missing
JoinRequestSilent(s, u, l) ==
  /\ Receive(s)
  /\ IF u = NoUser
     THEN /\ last' = Done([Suspended EXCEPT !.kind = "join", !.sock = s, !.lang = l],
                          <<>>, "rejected")
          /\ UNCHANGED handlers
     ELSE /\ NumInFlight < MaxHandlers
          /\ handlers' = Spawn(handlers, [Suspended EXCEPT !.kind = "join",
                                 !.pc = "getUser", !.sock = s, !.userId = u, !.lang = l])
          /\ last' = Idle
  /\ UNCHANGED <<users, open, closed, rooms, log, dictionary, directory, client>>

\* handleUserJoin up to `await storage.getUser(userId)`
JoinRequest(s, u, l) ==
  /\ Receive(s)
  /\ IF u = NoUser
     THEN /\ last' = Done([Suspended EXCEPT !.kind = "join", !.sock = s, !.lang = l],
                          sendError(s, "User ID is required"), "rejected")
          /\ UNCHANGED handlers
     ELSE /\ NumInFlight < MaxHandlers
          /\ handlers' = Spawn(handlers, [Suspended EXCEPT !.kind = "join",
                                 !.pc = "getUser", !.sock = s, !.userId = u, !.lang = l])
          /\ last' = Idle
  /\ UNCHANGED <<users, open, closed, rooms, log, dictionary, directory, client>>

\* handleUserJoin keeping the socket of an entry the user already has
JoinRegisterKeep(h) ==
  /\ h.kind = "join" /\ h.pc = "getUser"
  /\ IF h.userId \notin Users
     THEN /\ last' = Done(h, sendError(h.sock, "User not found"), "rejected")
          /\ handlers' = Retire(handlers, h)
          /\ UNCHANGED users
     ELSE LET l == IF h.lang # NoLang THEN h.lang ELSE directory[h.userId]
              g == [h EXCEPT !.pc = "select", !.lang = l, !.cur = TRUE, !.sock = "-"]
              old == users[h.userId]
              p == IF old = Absent THEN "-"
                   ELSE IF old.socket = h.sock THEN old.replaced
                   ELSE IF old.socket \in open THEN old.socket ELSE "-"
          IN /\ users' = [users EXCEPT ![h.userId] = ChatUser(IF old = Absent THEN h.sock ELSE old.socket, NoRoom, l, p)]
             /\ handlers' = Spawn(UnhookAll({h.userId}, Retire(handlers, h)), g)
             /\ last' = Idle
  /\ UNCHANGED <<open, closed, rooms, log, requests, dictionary, directory, client>>

\* handleUserJoin after getUser: register, then matchUsers up to the SELECT
JoinRegister(h) ==
  /\ h.kind = "join" /\ h.pc = "getUser"
  /\ IF h.userId \notin Users
     THEN /\ last' = Done(h, sendError(h.sock, "User not found"), "rejected")
          /\ handlers' = Retire(handlers, h)
          /\ UNCHANGED users
     ELSE LET l == IF h.lang # NoLang THEN h.lang ELSE directory[h.userId]
              g == [h EXCEPT !.pc = "select", !.lang = l, !.cur = TRUE, !.sock = "-"]
              old == users[h.userId]
              p == IF old = Absent THEN "-"
                   ELSE IF old.socket = h.sock THEN old.replaced
                   ELSE IF old.socket \in open THEN old.socket ELSE "-"
          IN /\ users' = [users EXCEPT ![h.userId] = ChatUser(h.sock, NoRoom, l, p)]
             /\ handlers' = Spawn(UnhookAll({h.userId}, Retire(handlers, h)), g)
             /\ last' = Idle
  /\ UNCHANGED <<open, closed, rooms, log, requests, dictionary, directory, client>>

\* the WHERE clause without ne(chatRooms.user1Id, userId)
WaitingAny(userId) ==
  {r \in RoomIds : rooms[r].user2Id = NoUser /\ rooms[r].isActive}

\* the WHERE clause of findOrCreateChatRoom's SELECT
Waiting(userId) ==
  {r \in RoomIds : /\ rooms[r].user2Id = NoUser
                   /\ rooms[r].isActive
                   /\ rooms[r].user1Id # userId}

Oldest(S) == IF S = {} THEN NoRoom ELSE CHOOSE r \in S : \A q \in S : r <= q

\* SELECT ... LIMIT 1 with no ORDER BY: any one of the matching rows
JoinSelect(h) ==
  /\ h.kind = "join" /\ h.pc = "select"
  /\ IF Waiting(h.userId) = {}
     THEN handlers' = Move(handlers, h, [h EXCEPT !.pc = "insert"])
     ELSE \E r \in Waiting(h.userId) :
            handlers' = Move(handlers, h, [h EXCEPT !.pc = "update", !.room = r,
                                                   !.oldest = Oldest(Waiting(h.userId))])
  /\ last' = Idle
  /\ UNCHANGED <<users, open, closed, rooms, log, requests, dictionary, directory, client>>

\* UPDATE chat_rooms SET user2_id = userId WHERE id = existingRoom.id RETURNING *
JoinUpdate(h) ==
  /\ h.kind = "join" /\ h.pc = "update"
  /\ rooms' = [rooms EXCEPT ![h.room].user2Id = h.userId]
  /\ handlers' = Move(handlers, h,
                      [h EXCEPT !.pc = "matched", !.oldest = NoRoom,
                                !.row = [Row(h.room) EXCEPT !.user2Id = h.userId]])
  /\ last' = Idle
  /\ UNCHANGED <<users, open, closed, log, requests, dictionary, directory, client>>

\* createChatRoom inserting the row with is_active false
JoinInsertEnded(h) ==
  /\ h.kind = "join" /\ h.pc = "insert"
  /\ rooms' = Append(rooms, [user1Id |-> h.userId, user2Id |-> NoUser, isActive |-> FALSE])
  /\ handlers' = Move(handlers, h,
                      [h EXCEPT !.pc = "matched", !.room = Len(rooms) + 1,
                                !.row = [id |-> Len(rooms) + 1, user1Id |-> h.userId,
                                         user2Id |-> NoUser, isActive |-> FALSE]])
  /\ last' = Idle
  /\ UNCHANGED <<users, open, closed, log, requests, dictionary, directory, client>>

\* createChatRoom({ user1Id: userId }): INSERT ... RETURNING *
JoinInsert(h) ==
  /\ h.kind = "join" /\ h.pc = "insert"
  /\ rooms' = Append(rooms, [user1Id |-> h.userId, user2Id |-> NoUser, isActive |-> TRUE])
  /\ handlers' = Move(handlers, h,
                      [h EXCEPT !.pc = "matched", !.room = Len(rooms) + 1,
                                !.row = [id |-> Len(rooms) + 1, user1Id |-> h.userId,
                                         user2Id |-> NoUser, isActive |-> TRUE]])
  /\ last' = Idle
  /\ UNCHANGED <<users, open, closed, log, requests, dictionary, directory, client>>

\* matchUsers from `user.chatRoomId = chatRoom.id` to the next await
JoinMatched(h) ==
  /\ h.kind = "join" /\ h.pc = "matched"
  /\ LET u == h.userId
         bound == IF h.cur THEN [users EXCEPT ![u].chatRoomId = h.row.id] ELSE users
         otherUserId == IF h.row.user1Id = u THEN h.row.user2Id ELSE h.row.user1Id
     IN IF h.row.user2Id # NoUser
        THEN IF bound[otherUserId] # Absent
             THEN /\ users' = [bound EXCEPT ![otherUserId].chatRoomId = h.row.id]
                  /\ handlers' = Move(handlers, h,
                        [h EXCEPT !.pc = "notify", !.cur = FALSE, !.other = otherUserId,
                                  !.otherLang = bound[otherUserId].preferredLanguage])
                  /\ last' = Idle
             ELSE /\ users' = bound
                  /\ handlers' = Retire(handlers, h)
                  /\ last' = Done([h EXCEPT !.other = otherUserId], <<>>, "unnotified")
        ELSE /\ users' = bound
             /\ handlers' = Retire(handlers, h)
             /\ last' = Done(h, sendToUser(u, [type |-> "waiting"]), "waiting")
  /\ UNCHANGED <<open, closed, rooms, log, requests, dictionary, directory, client>>

UserJoined(chatRoomId, id, lang) ==
  [type |-> "user_joined", chatRoomId |-> chatRoomId,
   otherUser |-> [id |-> id, name |-> DisplayName(id), preferredLanguage |-> lang]]

\* matchUsers showing each user the language the directory holds for the
\* other one at that moment
JoinNotifyDirectory(h) ==
  /\ h.kind = "join" /\ h.pc = "notify"
  /\ handlers' = Retire(handlers, h)
  /\ last' = Done(h, sendToUser(h.userId, UserJoined(h.row.id, h.other, directory[h.other]))
                     \o sendToUser(h.other, UserJoined(h.row.id, h.userId, directory[h.userId])),
                  "paired")
  /\ UNCHANGED <<users, open, closed, rooms, log, requests, dictionary, directory, client>>

\* matchUsers after the two getUser awaits: notify both users
JoinNotify(h) ==
  /\ h.kind = "join" /\ h.pc = "notify"
  /\ handlers' = Retire(handlers, h)
  /\ last' = Done(h, sendToUser(h.userId, UserJoined(h.row.id, h.other, h.otherLang))
                     \o sendToUser(h.other, UserJoined(h.row.id, h.userId, h.lang)),
                  "paired")
  /\ UNCHANGED <<users, open, closed, rooms, log, requests, dictionary, directory, client>>

\* ----------------------------------------------------------- leave_chat
UserLeft == [type |-> "user_left", message |-> "The other user has left the chat"]

\* handleLeaveChat up to `await storage.endChatRoom(chatRoomId)`
\* (the socket parameter is never used by handleLeaveChat)
LeaveHandler(u, r, viaClose) ==
  [Suspended EXCEPT !.kind = "leave", !.pc = "end", !.userId = u,
                    !.room = r, !.viaClose = viaClose, !.bound = viaClose,
                    !.own = viaClose]

LeaveRequest(s, u, r) ==
  /\ Receive(s)
  /\ NumInFlight < MaxHandlers
  /\ handlers' = Spawn(handlers,
       [LeaveHandler(u, r, FALSE) EXCEPT
          !.again = ~rooms[r].isActive /\ users[u] # Absent /\ users[u].chatRoomId # r,
          !.bound = (users[u] # Absent /\ users[u].chatRoomId = r),
          !.own = (users[u] # Absent /\ users[u].socket = s)])
  /\ last' = Idle
  /\ UNCHANGED <<users, open, closed, rooms, log, dictionary, directory, client>>

\* UPDATE chat_rooms SET is_active = false, ended_at = now() WHERE id = chatRoomId
LeaveEnd(h) ==
  /\ h.kind = "leave" /\ h.pc = "end"
  /\ rooms' = IF h.room \in RoomIds THEN [rooms EXCEPT ![h.room].isActive = FALSE]
              ELSE rooms
  /\ handlers' = Move(handlers, h, [h EXCEPT !.pc = "get"])
  /\ last' = Idle
  /\ UNCHANGED <<users, open, closed, log, requests, dictionary, directory, client>>

\* getChatRoom(chatRoomId): SELECT ... WHERE id = chatRoomId
LeaveGet(h) ==
  /\ h.kind = "leave" /\ h.pc = "get"
  /\ handlers' = Move(handlers, h,
       [h EXCEPT !.pc = "notify",
                 !.row = IF h.room \in RoomIds THEN Row(h.room) ELSE NoRow])
  /\ last' = Idle
  /\ UNCHANGED <<users, open, closed, rooms, log, requests, dictionary, directory, client>>

\* handleLeaveChat notifying the leaving user instead of the other one
LeaveNotifySelf(h) ==
  /\ h.kind = "leave" /\ h.pc = "notify"
  /\ LET otherUserId == IF h.row.user1Id = h.userId THEN h.row.user2Id
                        ELSE h.row.user1Id
         sent == IF h.row # NoRow /\ otherUserId # NoUser
                 THEN sendToUser(h.userId, UserLeft) ELSE <<>>
     IN /\ last' = Done([h EXCEPT !.other = otherUserId], sent, "left")
        /\ users' = IF users[h.userId] # Absent
                    THEN [users EXCEPT ![h.userId].chatRoomId = NoRoom] ELSE users
  /\ handlers' = Retire(handlers, h)
  /\ UNCHANGED <<open, closed, rooms, log, requests, dictionary, directory, client>>

\* handleLeaveChat after getChatRoom: notify the other user, release the binding
LeaveNotify(h) ==
  /\ h.kind = "leave" /\ h.pc = "notify"
  /\ LET otherUserId == IF h.row.user1Id = h.userId THEN h.row.user2Id
                        ELSE h.row.user1Id
         sent == IF h.row # NoRow /\ otherUserId # NoUser
                 THEN sendToUser(otherUserId, UserLeft) ELSE <<>>
     IN /\ last' = Done([h EXCEPT !.other = otherUserId], sent, "left")
        /\ users' = IF users[h.userId] # Absent
                    THEN [users EXCEPT ![h.userId].chatRoomId = NoRoom] ELSE users
  /\ handlers' = Retire(handlers, h)
  /\ UNCHANGED <<open, closed, rooms, log, requests, dictionary, directory, client>>

\* ------------------------------------------------------------ disconnect
OwnersOf(s) == {u \in Users : users[u] # Absent /\ users[u].socket = s}

\* handleDisconnection cleaning up every user that ever registered on the socket
DisconnectStale(s) ==
  LET ever == OwnersOf(s) \cup {u \in Users : users[u] # Absent /\ users[u].replaced = s}
      bound == {u \in ever : users[u].chatRoomId # NoRoom}
  IN /\ s \in open
     /\ NumInFlight + Cardinality(bound) <= MaxHandlers
     /\ open' = open \ {s}
     /\ closed' = closed \cup {s}
     /\ handlers' = UnhookAll(ever, handlers)
                    (+) SetToBag({LeaveHandler(u, users[u].chatRoomId, TRUE) : u \in bound})
     /\ users' = [u \in Users |-> IF u \in ever THEN Absent ELSE users[u]]
     /\ last' = Idle
     /\ UNCHANGED <<rooms, log, requests, dictionary, directory, client>>

\* socket.on('close'): handleDisconnection; every handleLeaveChat it calls runs
\* to its first await, and every user of the socket is deleted
Disconnect(s) ==
  LET bound == {u \in OwnersOf(s) : users[u].chatRoomId # NoRoom}
  IN /\ s \in open
     /\ NumInFlight + Cardinality(bound) <= MaxHandlers
     /\ open' = open \ {s}
     /\ closed' = closed \cup {s}
     /\ handlers' = UnhookAll(OwnersOf(s), handlers)
                    (+) SetToBag({LeaveHandler(u, users[u].chatRoomId, TRUE) : u \in bound})
     /\ users' = [u \in Users |-> IF u \in OwnersOf(s) THEN Absent ELSE users[u]]
     /\ last' = Idle
     /\ UNCHANGED <<rooms, log, requests, dictionary, directory, client>>

\* ---------------------------------------------------------- send_message
\* user u is one of the two participants of the active session r
InPairedSession(u, r) ==
  /\ r \in RoomIds
  /\ rooms[r].isActive
  /\ rooms[r].user2Id # NoUser
  /\ u \in {rooms[r].user1Id, rooms[r].user2Id}

\* handleSendMessage checking only that the sender is registered
SendRequestLax(s, u, r, c) ==
  /\ Receive(s)
  /\ LET h == [Suspended EXCEPT !.kind = "send", !.pc = "create", !.sock = s,
                                !.userId = u, !.room = r, !.content = c]
     IN IF users[u] = Absent
        THEN /\ last' = Done(h, sendError(s, "Invalid chat room"), "rejected")
             /\ UNCHANGED handlers
        ELSE /\ NumInFlight < MaxHandlers
             /\ handlers' = Spawn(handlers,
                    [h EXCEPT !.lang = users[u].preferredLanguage,
                              !.paired = InPairedSession(u, r),
                              !.seq = requests + 1,
                              !.own = (users[u].socket = s)])
             /\ last' = Idle
  /\ UNCHANGED <<users, open, closed, rooms, log, dictionary, directory, client>>

\* handleSendMessage up to `await storage.createMessage(...)`
SendRequest(s, u, r, c) ==
  /\ Receive(s)
  /\ LET h == [Suspended EXCEPT !.kind = "send", !.pc = "create", !.sock = s,
                                !.userId = u, !.room = r, !.content = c]
     IN IF users[u] = Absent \/ users[u].chatRoomId # r
        THEN /\ last' = Done(h, sendError(s, "Invalid chat room"), "rejected")
             /\ UNCHANGED handlers
        ELSE /\ NumInFlight < MaxHandlers
             /\ handlers' = Spawn(handlers,
                    [h EXCEPT !.lang = users[u].preferredLanguage,
                              !.paired = InPairedSession(u, r),
                              !.seq = requests + 1,
                              !.own = (users[u].socket = s)])
             /\ last' = Idle
  /\ UNCHANGED <<users, open, closed, rooms, log, dictionary, directory, client>>

\* createMessage whose failure is reported to the sender after the message
\* has been echoed to the sender all the same
SendCreateEcho(h) ==
  /\ h.kind = "send" /\ h.pc = "create"
  /\ \/ /\ h.room \in RoomIds
        /\ log' = Append(log, [chatRoomId |-> h.room, senderId |-> h.userId,
                               content |-> h.content, originalLanguage |-> h.lang,
                               createdAt |-> requests])
        /\ handlers' = Move(handlers, h, [h EXCEPT !.pc = "get", !.sock = "-",
                                                   !.createdAt = requests])
        /\ last' = Idle
     \/ /\ log' = log
        /\ handlers' = Retire(handlers, h)
        /\ last' = Done(h, sendToUser(h.userId,
                             [type |-> "message", chatRoomId |-> h.room,
                              senderId |-> h.userId, content |-> h.content,
                              originalLanguage |-> h.lang, timestamp |-> 0])
                           \o sendError(h.sock, "Failed to send message"), "failed")
  /\ UNCHANGED <<users, open, closed, rooms, requests, dictionary, directory, client>>

\* INSERT INTO messages ... RETURNING *: chat_room_id is NOT NULL and the
\* statement may fail; then the catch block reports to the sender. created_at
\* is defaultNow(): the time of the INSERT, on a clock that ticks once per
\* message received (requests); the request itself arrived at tick h.seq
SendCreate(h) ==
  /\ h.kind = "send" /\ h.pc = "create"
  /\ \/ /\ h.room \in RoomIds
        /\ log' = Append(log, [chatRoomId |-> h.room, senderId |-> h.userId,
                               content |-> h.content, originalLanguage |-> h.lang,
                               createdAt |-> requests])
        /\ handlers' = Move(handlers, h, [h EXCEPT !.pc = "get", !.sock = "-",
                                                   !.createdAt = requests])
        /\ last' = Idle
     \/ /\ log' = log
        /\ handlers' = Retire(handlers, h)
        /\ last' = Done(h, sendError(h.sock, "Failed to send message"), "failed")
  /\ UNCHANGED <<users, open, closed, rooms, requests, dictionary, directory, client>>

\* getChatRoom(chatRoomId)
SendGet(h) ==
  /\ h.kind = "send" /\ h.pc = "get"
  /\ handlers' = Move(handlers, h, [h EXCEPT !.pc = "deliver", !.row = Row(h.room)])
  /\ last' = Idle
  /\ UNCHANGED <<users, open, closed, rooms, log, requests, dictionary, directory, client>>

\* the message event stamped with the time the request arrived
MessageArrival(h) ==
  [type |-> "message", chatRoomId |-> h.room, senderId |-> h.userId,
   content |-> h.content, originalLanguage |-> h.lang, timestamp |-> h.seq]

\* messageToSend, with timestamp: savedMessage.createdAt
Message(h) ==
  [type |-> "message", chatRoomId |-> h.room, senderId |-> h.userId,
   content |-> h.content, originalLanguage |-> h.lang, timestamp |-> h.createdAt]

\* handleSendMessage forwarding to the other user only, without the echo
SendDeliverNoEcho(h) ==
  /\ h.kind = "send" /\ h.pc = "deliver"
  /\ LET otherUserId == IF h.row.user1Id = h.userId THEN h.row.user2Id
                        ELSE h.row.user1Id
     IN last' = Done([h EXCEPT !.other = otherUserId],
                     IF otherUserId # NoUser THEN sendToUser(otherUserId, Message(h))
                     ELSE <<>>,
                     "delivered")
  /\ handlers' = Retire(handlers, h)
  /\ UNCHANGED <<users, open, closed, rooms, log, requests, dictionary, directory, client>>

\* handleSendMessage after getChatRoom: send the message to both users
SendDeliver(h) ==
  /\ h.kind = "send" /\ h.pc = "deliver"
  /\ LET otherUserId == IF h.row.user1Id = h.userId THEN h.row.user2Id
                        ELSE h.row.user1Id
     IN last' = Done([h EXCEPT !.other = otherUserId],
                     sendToUser(h.userId, Message(h))
                     \o (IF otherUserId # NoUser THEN sendToUser(otherUserId, Message(h))
                         ELSE <<>>),
                     "delivered")
  /\ handlers' = Retire(handlers, h)
  /\ UNCHANGED <<users, open, closed, rooms, log, requests, dictionary, directory, client>>

\* ---------------------------------------------------------------- typing
\* isTyping values a typing request may carry
IsTypings == BOOLEAN

Typing(h) == [type |-> "typing", senderId |-> h.userId, isTyping |-> h.isTyping]

\* handleTyping up to `await storage.getChatRoom(chatRoomId)`
TypingRequest(s, u, r, t) ==
  /\ Receive(s)
  /\ LET h == [Suspended EXCEPT !.kind = "typing", !.pc = "get", !.sock = s,
                                !.userId = u, !.room = r, !.isTyping = t,
                                !.own = (users[u] # Absent /\ users[u].socket = s)]
     IN IF users[u] = Absent \/ users[u].chatRoomId # r
        THEN /\ last' = Done(h, <<>>, "ignored")
             /\ UNCHANGED handlers
        ELSE /\ NumInFlight < MaxHandlers
             /\ handlers' = Spawn(handlers, h)
             /\ last' = Idle
  /\ UNCHANGED <<users, open, closed, rooms, log, dictionary, directory, client>>

\* getChatRoom(chatRoomId); with chatRoomId undefined the query matches no
\* row or is refused by the driver, and then socket.on('message') catches
TypingGet(h) ==
  /\ h.kind = "typing" /\ h.pc = "get"
  /\ IF h.room \in RoomIds
     THEN /\ handlers' = Move(handlers, h,
                 [h EXCEPT !.pc = "forward", !.sock = "-", !.row = Row(h.room)])
          /\ last' = Idle
     ELSE /\ handlers' = Retire(handlers, h)
          /\ \/ last' = Done(h, <<>>, "ignored")
             \/ last' = Done(h, sendError(h.sock, "Invalid message format"), "threw")
  /\ UNCHANGED <<users, open, closed, rooms, log, requests, dictionary, directory, client>>

\* handleTyping forwarding the signal to the sender as well
TypingForwardEcho(h) ==
  /\ h.kind = "typing" /\ h.pc = "forward"
  /\ LET otherUserId == IF h.row.user1Id = h.userId THEN h.row.user2Id
                        ELSE h.row.user1Id
     IN last' = Done([h EXCEPT !.other = otherUserId],
                     sendToUser(h.userId, Typing(h))
                     \o (IF otherUserId # NoUser THEN sendToUser(otherUserId, Typing(h))
                         ELSE <<>>),
                     "forwarded")
  /\ handlers' = Retire(handlers, h)
  /\ UNCHANGED <<users, open, closed, rooms, log, requests, dictionary, directory, client>>

\* handleTyping after getChatRoom: forward to the other user
TypingForward(h) ==
  /\ h.kind = "typing" /\ h.pc = "forward"
  /\ LET otherUserId == IF h.row.user1Id = h.userId THEN h.row.user2Id
                        ELSE h.row.user1Id
     IN last' = Done([h EXCEPT !.other = otherUserId],
                     IF otherUserId # NoUser THEN sendToUser(otherUserId, Typing(h))
                     ELSE <<>>,
                     "forwarded")
  /\ handlers' = Retire(handlers, h)
  /\ UNCHANGED <<users, open, closed, rooms, log, requests, dictionary, directory, client>>

\* ----------------------------------------------------- translate_message
\* sourceLanguage and targetLanguage a translate_message request may carry
LangPairs == {<<"en-GB", "fr-FR">>, <<"en-GB", "en-GB">>}

\* what the translation API gives for a text and a target language
Translated(text, targetLang) == <<text, targetLang>>

\* the answers of the translation API to one request
Responses(text, targetLang) ==
  { [NoResponse EXCEPT !.thrown = TRUE],
    NoResponse,
    [NoResponse EXCEPT !.ok = TRUE, !.responseStatus = 403],
    [NoResponse EXCEPT !.ok = TRUE, !.responseStatus = 200,
                       !.translatedText = Translated(text, targetLang)] }

Failed == [failed |-> TRUE]

\* translateText returning the text itself when the two languages are equal
translateTextShortcut(text, sourceLang, targetLang, response) ==
  IF sourceLang = targetLang
  THEN [failed |-> FALSE, translatedText |-> <<text, targetLang>>,
        sourceLanguage |-> sourceLang, targetLanguage |-> targetLang]
  ELSE IF response.thrown THEN Failed
  ELSE IF ~response.ok THEN Failed
  ELSE IF response.responseStatus # 200 THEN Failed
  ELSE [failed |-> FALSE, translatedText |-> response.translatedText,
        sourceLanguage |-> sourceLang, targetLanguage |-> targetLang]

\* TranslationService.translateText, given the API's answer
translateText(text, sourceLang, targetLang, response) ==
  IF response.thrown THEN Failed
  ELSE IF ~response.ok THEN Failed
  ELSE IF response.responseStatus # 200 THEN Failed
  ELSE [failed |-> FALSE, translatedText |-> response.translatedText,
        sourceLanguage |-> sourceLang, targetLanguage |-> targetLang]

\* handleTranslateMessage up to `await translationService.translateText(...)`
TranslateRequest(s, u, c, sourceLanguage, targetLanguage) ==
  /\ Receive(s)
  /\ NumInFlight < MaxHandlers
  /\ handlers' = Spawn(handlers,
       [Suspended EXCEPT !.kind = "translate", !.pc = "fetch", !.sock = s,
                         !.userId = u, !.content = c, !.lang = sourceLanguage,
                         !.otherLang = targetLanguage,
                         !.own = (users[u] # Absent /\ users[u].socket = s)])
  /\ last' = Idle
  /\ UNCHANGED <<users, open, closed, rooms, log, dictionary, directory, client>>

Translation(h, translation) ==
  [type |-> "translation", translatedContent |-> translation.translatedText,
   originalLanguage |-> h.lang, targetLanguage |-> h.otherLang]

\* handleTranslateMessage answering a failed translation with the text itself
TranslateDoneFallback(h) ==
  /\ h.kind = "translate" /\ h.pc = "fetch"
  /\ \E response \in Responses(h.content, h.otherLang) :
       LET translation == translateText(h.content, h.lang, h.otherLang, response)
           g == [h EXCEPT !.resp = response]
       IN last' = IF translation.failed
                  THEN Done(g, sendToUser(h.userId,
                                 Translation(h, [translatedText |-> h.content])),
                            "failed")
                  ELSE Done(g, sendToUser(h.userId, Translation(h, translation)),
                            "translated")
  /\ handlers' = Retire(handlers, h)
  /\ UNCHANGED <<users, open, closed, rooms, log, requests, dictionary, directory, client>>

\* handleTranslateMessage after translateText: the result, or the catch block
TranslateDone(h) ==
  /\ h.kind = "translate" /\ h.pc = "fetch"
  /\ \E response \in Responses(h.content, h.otherLang) :
       LET translation == translateText(h.content, h.lang, h.otherLang, response)
           g == [h EXCEPT !.resp = response]
       IN last' = IF translation.failed
                  THEN Done(g, sendError(h.sock, "Failed to translate message"),
                            "failed")
                  ELSE Done(g, sendToUser(h.userId, Translation(h, translation)),
                            "translated")
  /\ handlers' = Retire(handlers, h)
  /\ UNCHANGED <<users, open, closed, rooms, log, requests, dictionary, directory, client>>

\* ------------------------------------------------------- rejected input
\* socket.on('message'): JSON.parse throws, the catch block answers
InvalidEnvelope(s) ==
  /\ Receive(s)
  /\ last' = Done([Suspended EXCEPT !.kind = "invalid", !.sock = s],
                  sendError(s, "Invalid message format"), "rejected")
  /\ UNCHANGED <<users, open, closed, rooms, log, handlers, dictionary, directory, client>>

\* handleMessage answering nothing to a type it does not know
UnknownTypeSilent(s) ==
  /\ Receive(s)
  /\ last' = Done([Suspended EXCEPT !.kind = "unknown", !.sock = s], <<>>, "rejected")
  /\ UNCHANGED <<users, open, closed, rooms, log, handlers, dictionary, directory, client>>

\* handleMessage: the default case of the switch on message.type
UnknownType(s) ==
  /\ Receive(s)
  /\ last' = Done([Suspended EXCEPT !.kind = "unknown", !.sock = s],
                  sendError(s, "Unknown message type"), "rejected")
  /\ UNCHANGED <<users, open, closed, rooms, log, handlers, dictionary, directory, client>>


\* ------------------------------------------------------- the REST routes
\* the reply of a route handler that has run to its end; resp is history
\* only: the answer the translation API gave
Replied(route, status, body, resp) ==
  [kind |-> route, status |-> status, body |-> body, resp |-> resp]

\* req.body.text of a request; the empty string is falsy
Texts == {"", "hello"}

\* the fields of req.body of POST /api/dictionary; the empty tuple stands
\* for a translatedText that is missing
EntryBodies ==
  { [originalText |-> "hello", translatedText |-> t,
     sourceLanguage |-> "en-GB", targetLanguage |-> "fr-FR"] :
      t \in {Translated("hello", "fr-FR"), <<>>} }

\* insertDictionaryEntrySchema.parse: every picked column is NOT NULL
ValidEntry(data) ==
  /\ data.userId # NoUser
  /\ data.originalText # NoLang /\ data.translatedText # <<>>
  /\ data.sourceLanguage # NoLang /\ data.targetLanguage # NoLang

\* DatabaseStorage.createDictionaryEntry: INSERT ... RETURNING *; the id the
\* database generates is unique (here: the number of the request)
createDictionaryEntry(entryData, id) ==
  [id |-> id, userId |-> entryData.userId, originalText |-> entryData.originalText,
   translatedText |-> entryData.translatedText,
   sourceLanguage |-> entryData.sourceLanguage,
   targetLanguage |-> entryData.targetLanguage]

\* POST /api/translate storing what it translated in the dictionary
PostTranslateSaving(text, sourceLanguage, targetLanguage) ==
  /\ requests' = requests + 1
  /\ IF text = "" \/ sourceLanguage = "" \/ targetLanguage = ""
     THEN /\ last' = Replied("POST /api/translate", 400,
                             "Text, source language, and target language are required",
                             NoResponse)
          /\ dictionary' = dictionary
     ELSE \E response \in Responses(text, targetLanguage) :
            LET translation == translateText(text, sourceLanguage, targetLanguage,
                                             response)
            IN IF translation.failed
               THEN /\ last' = Replied("POST /api/translate", 500,
                                       "Failed to translate text", response)
                    /\ dictionary' = dictionary
               ELSE /\ last' = Replied("POST /api/translate", 200, translation,
                                       response)
                    /\ dictionary' = Append(dictionary,
                         createDictionaryEntry(
                           [userId |-> NoUser, originalText |-> text,
                            translatedText |-> translation.translatedText,
                            sourceLanguage |-> sourceLanguage,
                            targetLanguage |-> targetLanguage], requests + 1))
  /\ UNCHANGED <<users, open, closed, rooms, log, handlers, directory, client>>

\* POST /api/translate: nothing is stored
PostTranslate(text, sourceLanguage, targetLanguage) ==
  /\ requests' = requests + 1
  /\ IF text = "" \/ sourceLanguage = "" \/ targetLanguage = ""
     THEN last' = Replied("POST /api/translate", 400,
                          "Text, source language, and target language are required",
                          NoResponse)
     ELSE \E response \in Responses(text, targetLanguage) :
            LET translation == translateText(text, sourceLanguage, targetLanguage,
                                             response)
            IN last' = IF translation.failed
                       THEN Replied("POST /api/translate", 500,
                                    "Failed to translate text", response)
                       ELSE Replied("POST /api/translate", 200, translation, response)
  /\ UNCHANGED <<users, open, closed, rooms, log, handlers, dictionary, directory, client>>

\* POST /api/dictionary: the explicit save; the INSERT may fail
PostDictionary(userId, body) ==
  /\ requests' = requests + 1
  /\ LET validatedData == [userId |-> userId, originalText |-> body.originalText,
                           translatedText |-> body.translatedText,
                           sourceLanguage |-> body.sourceLanguage,
                           targetLanguage |-> body.targetLanguage]
         entry == createDictionaryEntry(validatedData, requests + 1)
     IN \/ /\ ValidEntry(validatedData)
           /\ dictionary' = Append(dictionary, entry)
           /\ last' = Replied("POST /api/dictionary", 200, entry, NoResponse)
        \/ /\ dictionary' = dictionary
           /\ last' = Replied("POST /api/dictionary", 500,
                              "Failed to create dictionary entry", NoResponse)
  /\ UNCHANGED <<users, open, closed, rooms, log, handlers, directory, client>>

\* DatabaseStorage.deleteDictionaryEntry: DELETE ... WHERE id = id AND user_id = userId
deleteDictionaryEntry(id, userId) ==
  SelectSeq(dictionary, LAMBDA e : ~(e.id = id /\ e.userId = userId))

\* DELETE /api/dictionary/:id; the DELETE may fail
DeleteDictionary(userId, id) ==
  /\ requests' = requests + 1
  /\ \/ /\ dictionary' = deleteDictionaryEntry(id, userId)
        /\ last' = Replied("DELETE /api/dictionary", 200, [success |-> TRUE],
                           NoResponse)
     \/ /\ dictionary' = dictionary
        /\ last' = Replied("DELETE /api/dictionary", 500,
                           "Failed to delete dictionary entry", NoResponse)
  /\ UNCHANGED <<users, open, closed, rooms, log, handlers, directory, client>>

\* the answers of the translation API to a detection request: fetch throws,
\* or an HTTP status (ok or not) with a body whose matches are missing or a
\* list of matches, each with a source that may be empty
NoDetection == [thrown |-> FALSE, ok |-> FALSE, hasMatches |-> FALSE, matches |-> <<>>]
Detections ==
  { [NoDetection EXCEPT !.thrown = TRUE],
    NoDetection,
    [NoDetection EXCEPT !.ok = TRUE] }
  \cup { [NoDetection EXCEPT !.ok = TRUE, !.hasMatches = TRUE, !.matches = m] :
           m \in { <<>>, <<[source |-> ""]>>, <<[source |-> "fr-FR"]>>,
                   <<[source |-> ""], [source |-> "fr-FR"]>>,
                   <<[source |-> "de-DE"], [source |-> ""]>> } }

\* what detectLanguage hands to its caller: a language, or an exception
Detected(language) == [threw |-> FALSE, language |-> language]

\* detectLanguage without the fallbacks: the exception goes to the caller
\* and an empty source is returned as it is
detectLanguageBare(text, response) ==
  IF response.thrown THEN [threw |-> TRUE, language |-> ""]
  ELSE IF ~response.ok THEN [threw |-> TRUE, language |-> ""]
  ELSE IF response.hasMatches /\ Len(response.matches) > 0
       THEN Detected(response.matches[1].source)
  ELSE Detected("en-GB")

\* TranslationService.detectLanguage, given the API's answer
detectLanguage(text, response) ==
  IF response.thrown THEN Detected("en-GB")
  ELSE IF ~response.ok THEN Detected("en-GB")
  ELSE IF response.hasMatches /\ Len(response.matches) > 0
       THEN IF response.matches[1].source # ""
            THEN Detected(response.matches[1].source)
            ELSE Detected("en-GB")
  ELSE Detected("en-GB")

\* POST /api/detect-language
PostDetectLanguage(text) ==
  /\ requests' = requests + 1
  /\ IF text = ""
     THEN last' = Replied("POST /api/detect-language", 400, "Text is required",
                          NoDetection)
     ELSE \E response \in Detections :
            LET language == detectLanguage(text, response)
            IN last' = IF language.threw
                       THEN Replied("POST /api/detect-language", 500,
                                    "Failed to detect language", response)
                       ELSE Replied("POST /api/detect-language", 200,
                                    [language |-> language.language], response)
  /\ UNCHANGED <<users, open, closed, rooms, log, handlers, dictionary, directory, client>>

\* PATCH /api/auth/user: upsertUser sets preferred_language of the caller's
\* row; an empty preferredLanguage is falsy; the statement may fail
PatchUser(userId, preferredLanguage) ==
  /\ requests' = requests + 1
  /\ IF preferredLanguage = ""
     THEN /\ directory' = directory
          /\ last' = Replied("PATCH /api/auth/user", 400,
                             "Preferred language is required", NoResponse)
     ELSE \/ /\ directory' = [directory EXCEPT ![userId] = preferredLanguage]
             /\ last' = Replied("PATCH /api/auth/user", 200,
                                [id |-> userId, preferredLanguage |-> preferredLanguage],
                                NoResponse)
          \/ /\ directory' = directory
             /\ last' = Replied("PATCH /api/auth/user", 500, "Failed to update user",
                                NoResponse)
  /\ UNCHANGED <<users, open, closed, rooms, log, handlers, dictionary, client>>

\* a client message arrives and its handler runs to its first await
Request ==
  \/ \E s \in Sockets, u \in Users \cup {NoUser}, l \in JoinLangs : JoinRequest(s, u, l)
  \/ \E s \in Sockets, u \in Users, r \in RoomIds : LeaveRequest(s, u, r)
  \/ \E s \in Sockets, u \in Users, r \in RoomIds \cup {NoRoom}, c \in Contents :
       SendRequest(s, u, r, c)

\* a storage call of a suspended handler completes and the handler runs on
Resume ==
  \/ \E h \in InFlight : JoinRegister(h)
  \/ \E h \in InFlight : JoinSelect(h)
  \/ \E h \in InFlight : JoinUpdate(h)
  \/ \E h \in InFlight : JoinInsert(h)
  \/ \E h \in InFlight : JoinMatched(h)
  \/ \E h \in InFlight : JoinNotify(h)
  \/ \E h \in InFlight : LeaveEnd(h)
  \/ \E h \in InFlight : LeaveGet(h)
  \/ \E h \in InFlight : LeaveNotify(h)
  \/ \E h \in InFlight : SendCreate(h)
  \/ \E h \in InFlight : SendGet(h)
  \/ \E h \in InFlight : SendDeliver(h)

\* the event loop: events are taken while other handlers are suspended
Next ==
  \/ \E s \in Sockets : Connect(s)
  \/ \E s \in Sockets : Disconnect(s)
  \/ requests < MaxRequests /\ Request
  \/ Resume

Spec == Init /\ [][Next]_vars

\* the same program when every handler has run to its end before the next
\* message or close event is taken
SerialNext ==
  \/ \E s \in Sockets : Connect(s)
  \/ handlers = EmptyBag /\ \E s \in Sockets : Disconnect(s)
  \/ handlers = EmptyBag /\ requests < MaxSerial /\ Request
  \/ Resume

SerialSpec == Init /\ [][SerialNext]_vars

\* every storage call returns: a suspended handler is resumed eventually
FairSpec == Spec /\ WF_vars(Resume)

\* the serial program, except that a client may send its next send_message
\* while the handlers of earlier send_message requests are still suspended
PipelineNext ==
  \/ \E s \in Sockets : Connect(s)
  \/ handlers = EmptyBag /\ \E s \in Sockets : Disconnect(s)
  \/ handlers = EmptyBag /\ requests < MaxSerial /\ Request
  \/ /\ handlers # EmptyBag
     /\ \A h \in InFlight : h.kind = "send"
     /\ requests < MaxSerial
     /\ \E s \in Sockets, u \in Users, r \in RoomIds, c \in Contents : SendRequest(s, u, r, c)
  \/ Resume

PipelineSpec == Init /\ [][PipelineNext]_vars

\* typing and translate_message requests
RelayRequest ==
  \/ \E s \in Sockets, u \in Users, r \in RoomIds \cup {NoRoom}, t \in IsTypings :
       TypingRequest(s, u, r, t)
  \/ \E s \in Sockets, u \in Users, c \in Contents, p \in LangPairs :
       TranslateRequest(s, u, c, p[1], p[2])
  \/ \E s \in Sockets : InvalidEnvelope(s)
  \/ \E s \in Sockets : UnknownType(s)

RelayResume ==
  \/ \E h \in InFlight : TypingGet(h)
  \/ \E h \in InFlight : TypingForward(h)
  \/ \E h \in InFlight : TranslateDone(h)

\* the event loop with all five kinds of client message
RelayNext ==
  \/ \E s \in Sockets : Connect(s)
  \/ \E s \in Sockets : Disconnect(s)
  \/ requests < MaxRelay /\ Request
  \/ requests < MaxRelay /\ RelayRequest
  \/ Resume
  \/ RelayResume

RelaySpec == Init /\ [][RelayNext]_vars

\* an HTTP request to one of the REST routes is handled
ApiRequest ==
  \/ \E text \in Texts, p \in LangPairs : PostTranslate(text, p[1], p[2])
  \/ \E u \in Users, body \in EntryBodies : PostDictionary(u, body)
  \/ \E u \in Users, id \in 1..MaxApi : DeleteDictionary(u, id)
  \/ \E text \in Texts : PostDetectLanguage(text)

\* the server: the WebSocket event loop and the REST routes
ApiNext ==
  \/ \E s \in Sockets : Connect(s)
  \/ \E s \in Sockets : Disconnect(s)
  \/ requests < MaxApi /\ Request
  \/ requests < MaxApi /\ RelayRequest
  \/ requests < MaxApi /\ ApiRequest
  \/ Resume
  \/ RelayResume

ApiSpec == Init /\ [][ApiNext]_vars


\* join requests with or without a known user id and a language, and messages
DirectoryRequest ==
  \/ \E s \in Sockets, u \in Users \cup {NoUser, UnknownUser}, l \in RequestLangs :
       JoinRequest(s, u, l)
  \/ \E s \in Sockets, u \in Users, r \in RoomIds \cup {NoRoom}, c \in Contents :
       SendRequest(s, u, r, c)

DirectoryResume ==
  \/ \E h \in InFlight : JoinRegister(h)
  \/ \E h \in InFlight : JoinSelect(h)
  \/ \E h \in InFlight : JoinUpdate(h)
  \/ \E h \in InFlight : JoinInsert(h)
  \/ \E h \in InFlight : JoinMatched(h)
  \/ \E h \in InFlight : JoinNotify(h)
  \/ \E h \in InFlight : SendCreate(h)
  \/ \E h \in InFlight : SendGet(h)
  \/ \E h \in InFlight : SendDeliver(h)

\* client messages handled one at a time, while users change their language
\* in the directory at any moment
DirectoryNext ==
  \/ \E s \in Sockets : Connect(s)
  \/ handlers = EmptyBag /\ requests < MaxDirectory /\ DirectoryRequest
  \/ requests < MaxDirectory /\ \E u \in Users, l \in {"", "de-DE"} : PatchUser(u, l)
  \/ DirectoryResume

DirectorySpec == Init /\ [][DirectoryNext]_vars

\* ------------------------------------------------------------ the client
\* useWebSocket (client/src/hooks/useWebSocket.ts, quoted in replit.md) in the
\* browser of one user who stays authenticated while the page is mounted,
\* against the server above.  The hook's messages, otherUser and isTyping
\* are display state and are left out.
ClientUser == "A"
PartnerUser == "B"
ClientSockets == <<"s1", "s2", "s3", "s4">>   \* the WebSockets of the page, in order
PartnerSocket == "p1"

\* the WebSocket connect() created last
Ws(c) == IF c.ws = 0 THEN "-" ELSE ClientSockets[c.ws]

\* socket.send(JSON.stringify(...)) of the client
Written(type, socket, chatRoomId) ==
  [type |-> type, socket |-> socket, chatRoomId |-> chatRoomId, at |-> requests]

\* the message the client wrote last is on its way to the server
OnWire == client.sent.at = requests

\* the events of the last step that went out on the client's connection
Unread ==
  IF last = Idle \/ client.readyState # "open" THEN <<>>
  ELSE SelectSeq(last.sent, LAMBDA e : e.to = Ws(client))

\* the server has closed the connection and ws.onclose has not run yet
Closing == client.readyState \in {"connecting", "open"} /\ Ws(client) \in closed

\* the browser has taken the events and the close of the step before
Heard == Unread = <<>> /\ ~Closing

\* nothing is in transit between the client and the server
Quiet == ~OnWire /\ Heard

\* the sessions handleDisconnection is releasing the client's user from
Releasing ==
  {h.room : h \in {g \in InFlight : g.kind = "leave" /\ g.viaClose
                                       /\ g.userId = ClientUser}}

\* the same, and the server has run every handler to its end: the moments
\* at which the users of the two browsers act
Settled == Quiet /\ handlers = EmptyBag

\* a step of the browser alone
ClientStep(c) ==
  /\ client' = c
  /\ last' = Idle
  /\ UNCHANGED <<users, open, closed, rooms, log, handlers, requests, dictionary,
                 directory>>

\* connect(): new WebSocket(wsUrl)
connect(c) ==
  [c EXCEPT !.ws = @ + 1, !.readyState = "connecting"]

\* useEffect: connect() when isAuthenticated && user
Mount ==
  /\ client.ws = 0
  /\ ClientStep(connect(client))

\* the timer ws.onclose set fires: if (isAuthenticated) connect()
Reconnect ==
  /\ client.reconnectTimeout
  /\ client.ws < MaxConnections
  /\ Unread = <<>>
  /\ ClientStep(connect([client EXCEPT !.reconnectTimeout = FALSE]))

\* wss.on('connection') for the client's new WebSocket
Accept ==
  /\ client.readyState = "connecting"
  /\ Unread = <<>>
  /\ Connect(Ws(client))

\* ws.onopen: setIsConnected(true), setConnectionStatus('connecting'),
\* setSocket(ws) and the join
onopen ==
  /\ client.readyState = "connecting"
  /\ Ws(client) \in open
  /\ Quiet
  /\ ClientStep([client EXCEPT !.readyState = "open", !.isConnected = TRUE,
                               !.connectionStatus = "connecting",
                               !.socket = Ws(client),
                               !.sent = Written("join", Ws(client), NoRoom)])

\* ws.onclose scheduling no reconnection
oncloseOnce ==
  /\ Closing
  /\ ClientStep([client EXCEPT !.readyState = "closed", !.isConnected = FALSE,
                               !.connectionStatus = "disconnected",
                               !.socket = "-", !.prior = @ \cup Releasing])

\* ws.onclose: the state is reset, chatRoomId is not, and the reconnection
\* timer is set
onclose ==
  /\ Closing
  /\ ClientStep([client EXCEPT !.readyState = "closed", !.isConnected = FALSE,
                               !.connectionStatus = "disconnected",
                               !.socket = "-", !.reconnectTimeout = TRUE,
                               !.prior = @ \cup Releasing])

\* ws.onmessage: the switch on message.type
onmessage(c, message) ==
  CASE message.type = "user_joined" ->
         [c EXCEPT !.chatRoomId = message.chatRoomId, !.connectionStatus = "connected"]
    [] message.type = "waiting" -> [c EXCEPT !.connectionStatus = "waiting"]
    [] message.type = "user_left" ->
         [c EXCEPT !.connectionStatus = "disconnected", !.chatRoomId = NoRoom]
    [] OTHER -> c

\* the client after ws.onmessage has run for each of the events, in order
RECURSIVE AfterEvents(_, _)
AfterEvents(c, events) ==
  IF events = <<>> THEN c
  ELSE AfterEvents(onmessage(c, Head(events).msg), Tail(events))

\* the events the server has sent reach the browser
ClientReceive ==
  /\ Unread # <<>>
  /\ ClientStep(AfterEvents(client, Unread))

\* the guard of sendMessage, sendTyping and leaveChat: socket && isConnected
\* && chatRoomId && user
MaySend(c) == c.socket # "-" /\ c.isConnected /\ c.chatRoomId # NoRoom

\* sendMessage(content)
sendMessage ==
  /\ Settled
  /\ requests < MaxClient
  /\ MaySend(client)
  /\ ClientStep([client EXCEPT
       !.sent = Written("send_message", client.socket, client.chatRoomId)])

\* sendTyping(typing)
sendTyping ==
  /\ Settled
  /\ requests < MaxClient
  /\ MaySend(client)
  /\ ClientStep([client EXCEPT
       !.sent = Written("typing", client.socket, client.chatRoomId)])

\* leaveChat(): the leave_chat if the guard holds, then the reset
leaveChat(c) ==
  [c EXCEPT !.sent = IF MaySend(c) THEN Written("leave_chat", c.socket, c.chatRoomId)
                     ELSE @,
            !.chatRoomId = NoRoom, !.connectionStatus = "disconnected"]

LeaveChat ==
  /\ Settled
  /\ requests < MaxClient
  /\ ClientStep(leaveChat(client))

\* startNewChat(): leaveChat() and a timer that holds the socket of this render
startNewChat ==
  /\ Settled
  /\ requests < MaxClient
  /\ client.newChat = "none"
  /\ ClientStep([leaveChat(client) EXCEPT !.newChat = client.socket])

\* the timer of startNewChat fires: the join on the socket it holds, which
\* the browser drops when that socket is no longer open
NewChatTimer ==
  /\ Settled
  /\ client.newChat # "none"
  /\ ClientStep(IF client.newChat = "-" THEN [client EXCEPT !.newChat = "none"]
                ELSE [client EXCEPT
                        !.newChat = "none", !.connectionStatus = "connecting",
                        !.sent = IF client.newChat \in open
                                 THEN Written("join", client.newChat, NoRoom) ELSE @])

\* socket.on('message') for the message the client wrote last, taken when
\* every handler before it has run to its end
Deliver ==
  /\ OnWire
  /\ Unread = <<>>
  /\ handlers = EmptyBag
  /\ LET m == client.sent
     IN \/ m.type = "join" /\ JoinRequest(m.socket, ClientUser, directory[ClientUser])
        \/ m.type = "send_message"
             /\ \E c \in Contents : SendRequest(m.socket, ClientUser, m.chatRoomId, c)
        \/ m.type = "typing" /\ TypingRequest(m.socket, ClientUser, m.chatRoomId, TRUE)
        \/ m.type = "leave_chat" /\ LeaveRequest(m.socket, ClientUser, m.chatRoomId)

\* the connection of the client is lost
ConnectionLost ==
  /\ Settled
  /\ client.readyState = "open"
  /\ Disconnect(Ws(client))

\* the other browser: it connects, joins, leaves the session it is in, goes
PartnerStep ==
  \/ Unread = <<>> /\ Connect(PartnerSocket)
  \/ Settled /\ requests < MaxClient /\ JoinRequest(PartnerSocket, PartnerUser, NoLang)
  \/ /\ Settled /\ requests < MaxClient
     /\ users[PartnerUser] # Absent /\ users[PartnerUser].chatRoomId # NoRoom
     /\ LeaveRequest(PartnerSocket, PartnerUser, users[PartnerUser].chatRoomId)
  \/ Settled /\ Disconnect(PartnerSocket)

\* a storage call of a suspended handler completes, once the browser has
\* taken the events and the close of the step before
ClientResume ==
  \/ \E h \in InFlight : Heard /\ JoinRegister(h)
  \/ \E h \in InFlight : Heard /\ JoinSelect(h)
  \/ \E h \in InFlight : Heard /\ JoinUpdate(h)
  \/ \E h \in InFlight : Heard /\ JoinInsert(h)
  \/ \E h \in InFlight : Heard /\ JoinMatched(h)
  \/ \E h \in InFlight : Heard /\ JoinNotify(h)
  \/ \E h \in InFlight : Heard /\ LeaveEnd(h)
  \/ \E h \in InFlight : Heard /\ LeaveGet(h)
  \/ \E h \in InFlight : Heard /\ LeaveNotify(h)
  \/ \E h \in InFlight : Heard /\ SendCreate(h)
  \/ \E h \in InFlight : Heard /\ SendGet(h)
  \/ \E h \in InFlight : Heard /\ SendDeliver(h)
  \/ \E h \in InFlight : Heard /\ TypingGet(h)
  \/ \E h \in InFlight : Heard /\ TypingForward(h)

\* the browser, the connection between it and the server, and the server
ClientNext ==
  \/ Mount
  \/ Reconnect
  \/ Accept
  \/ onopen
  \/ onclose
  \/ ClientReceive
  \/ sendMessage
  \/ sendTyping
  \/ LeaveChat
  \/ startNewChat
  \/ NewChatTimer
  \/ Deliver
  \/ ConnectionLost
  \/ PartnerStep
  \/ ClientResume

ClientSpec == Init /\ [][ClientNext]_vars

\* timers fire, connections are accepted, messages arrive and storage calls
\* return
FairClientSpec ==
  /\ ClientSpec
  /\ WF_vars(Reconnect) /\ WF_vars(Accept) /\ WF_vars(onopen) /\ WF_vars(onclose)
  /\ WF_vars(ClientReceive) /\ WF_vars(Deliver) /\ WF_vars(ClientResume)

\* ================================================================ claims
Completed(kind) == last # Idle /\ last.kind = kind
SentTo(u, type) == {i \in DOMAIN last.sent :
                      last.sent[i].user = u /\ last.sent[i].msg.type = type}
Connected(u) == u \in Users /\ users[u] # Absent /\ users[u].socket \in open
ActiveRoomsOf(u) ==
  {r \in RoomIds : rooms[r].isActive /\ u \in {rooms[r].user1Id, rooms[r].user2Id}}
IsWaiting(r) == rooms[r].isActive /\ rooms[r].user2Id = NoUser

\* the number of suspended handlers of a kind, for user u, at position pc
NumAt(bag, kind, u, pc) ==
  LET S == {h \in BagToSet(bag) : h.kind = kind /\ h.userId = u /\ h.pc = pc}
  IN BagCardinality([h \in S |-> bag[h]])

\* C1: no session ever has the same user as first and second participant, and
\* no user_joined event is ever addressed to a user with that user's own id
\* as otherUser.id.
C1_NoSelfPairing ==
  /\ \A r \in RoomIds : rooms[r].user1Id # rooms[r].user2Id
  /\ Completed("join") =>
       \A i \in DOMAIN last.sent :
         last.sent[i].msg.type = "user_joined" =>
           last.sent[i].msg.otherUser.id # last.sent[i].user

\* C1 witness: a join has paired two users and both were told user_joined.
C1_Witness ==
  /\ Completed("join") /\ last.outcome = "paired"
  /\ Len(last.sent) = 2
  /\ rooms[last.row.id].user2Id = last.userId

\* C2: there are never two active waiting sessions whose first participants
\* are two different users.
C2_OneWaitingOwner ==
  \A r, q \in RoomIds :
    IsWaiting(r) /\ IsWaiting(q) => rooms[r].user1Id = rooms[q].user1Id

\* C3: FIFO matching: when the waiting sessions of two different users are
\* both eligible for a joining third user, the SELECT of findOrCreateChatRoom
\* picks the one created first, never the later one.
C3_OldestFirst ==
  \A h \in InFlight :
    h.kind = "join" /\ h.pc = "update" =>
      ~ ( /\ h.oldest < h.room
          /\ rooms[h.oldest].user1Id # rooms[h.room].user1Id )

\* C4: at every moment each user is a participant (first or second) of at
\* most one session that is still active.
C4_OneActiveSession ==
  \A u \in Users : Cardinality(ActiveRoomsOf(u)) <= 1

\* C5: a send_message naming an unregistered user, or a chatRoomId other than
\* the sender's registered binding, is never accepted; it ends at once with
\* exactly one error event on the sending connection and changes neither the
\* log, nor the session table, nor the registry, nor any suspended handler.
C5_RejectedSendIsInert ==
  [][ /\ \A h \in BagToSet(handlers') :
           ( /\ h.kind = "send" /\ h.pc = "create"
             /\ CopiesIn(h, handlers') > CopiesIn(h, handlers) )
           => users[h.userId] # Absent /\ users[h.userId].chatRoomId = h.room
      /\ ( requests' # requests /\ last' # Idle /\ last'.kind = "send" )
           => /\ last'.outcome = "rejected"
              /\ last'.sent = <<Event(last'.sock, NoUser,
                                      [type |-> "error", error |-> "Invalid chat room"])>>
              /\ users[last'.userId] = Absent
                 \/ users[last'.userId].chatRoomId # last'.room
              /\ UNCHANGED <<users, rooms, log, handlers, open, closed>>
    ]_vars

\* C5 witness: a send_message naming a session other than the registered
\* sender's binding has just been rejected.
C5_Witness ==
  /\ Completed("send") /\ last.outcome = "rejected"
  /\ users[last.userId] # Absent
  /\ users[last.userId].chatRoomId # NoRoom
  /\ last.room # users[last.userId].chatRoomId

SendRecord(x) ==
  [chatRoomId |-> x.room, senderId |-> x.userId, content |-> x.content,
   originalLanguage |-> x.lang, createdAt |-> x.createdAt]
MessageOf(rec) ==
  [type |-> "message", chatRoomId |-> rec.chatRoomId, senderId |-> rec.senderId,
   content |-> rec.content, originalLanguage |-> rec.originalLanguage,
   timestamp |-> rec.createdAt]
Recorded(rec) == {i \in DOMAIN log : log[i] = rec}
Partner(u, r) == IF rooms[r].user1Id = u THEN rooms[r].user2Id ELSE rooms[r].user1Id

\* C6 as stated: every send_message accepted (validated and written to the
\* log) from a sender in a paired session has exactly one record in the log,
\* and the sender and the other participant each get one message event equal
\* to the record.
C6_RoundTrip ==
  ( Completed("send") /\ last.outcome = "delivered" /\ last.paired )
  => /\ Cardinality(Recorded(SendRecord(last))) = 1
     /\ \A p \in {last.userId, Partner(last.userId, last.room)} :
          /\ Cardinality(SentTo(p, "message")) = 1
          /\ \A i \in SentTo(p, "message") :
               last.sent[i].msg = MessageOf(SendRecord(last))

\* C6 amended: the log is written only by an accepted send_message appending
\* its one record (session, sender, content, sender's language); when its
\* handler delivers, the record is in the log and each of the sender and the
\* other participant (as the session row read by the handler names it) that
\* is registered on an open connection at that moment gets exactly one
\* message event, equal to the record, on that connection; a participant
\* that is not gets none, and nobody else gets anything.
C6_RoundTripConnected ==
  /\ [][ log' # log =>
           \E h \in InFlight :
             /\ h.kind = "send" /\ h.pc = "create"
             /\ log' = Append(log, SendRecord([h EXCEPT !.createdAt = requests]))
             /\ CopiesIn(h, handlers') < CopiesIn(h, handlers) ]_vars
  /\ [] ( ( Completed("send") /\ last.outcome = "delivered" ) =>
            /\ Recorded(SendRecord(last)) # {}
            /\ \A p \in {last.userId, last.other} \ {NoUser} :
                 IF Connected(p)
                 THEN /\ Cardinality(SentTo(p, "message")) = 1
                      /\ \A i \in SentTo(p, "message") :
                           /\ last.sent[i].msg = MessageOf(SendRecord(last))
                           /\ last.sent[i].to = users[p].socket
                 ELSE SentTo(p, "message") = {}
            /\ \A i \in DOMAIN last.sent :
                 /\ last.sent[i].user \in {last.userId, last.other}
                 /\ last.sent[i].msg.type = "message" )

\* C6 witness: a message from a sender in a paired session was delivered to
\* two different connected users.
C6_Witness ==
  /\ Completed("send") /\ last.outcome = "delivered" /\ last.paired
  /\ Len(last.sent) = 2
  /\ last.sent[1].user # last.sent[2].user

\* C7: the second leave_chat of a user for a session (the session already
\* ended and the caller already released from it when the call arrives) is a
\* no-op: it delivers no user_left notification.
C7_SecondLeaveSilent ==
  ( /\ Completed("leave") /\ ~last.viaClose /\ last.again
    /\ last.userId \in {last.row.user1Id, last.row.user2Id} )
  => last.sent = <<>>

ClosingLeaves == {h \in InFlight : h.kind = "leave" /\ h.viaClose}

\* C8: when a connection closes, every user registered on it is removed from
\* the registry at once and a leave_chat cleanup is started for each one that
\* was bound to a session; every such cleanup eventually completes, and when
\* it does the session is marked ended, the other participant named by the
\* session row the cleanup read gets exactly one user_left if registered on
\* an open connection and nothing otherwise, and nothing is sent on a
\* connection that is not open.
C8_CloseCleansUp ==
  /\ [][ \A s \in Sockets :
           (s \in open /\ s \notin open') =>
             \A u \in OwnersOf(s) :
               /\ users'[u] = Absent
               /\ users[u].chatRoomId # NoRoom =>
                    \E h \in BagToSet(handlers') :
                      /\ h.kind = "leave" /\ h.viaClose /\ h.pc = "end"
                      /\ h.userId = u /\ h.room = users[u].chatRoomId
                      /\ CopiesIn(h, handlers') > CopiesIn(h, handlers) ]_vars
  /\ [] ( ( Completed("leave") /\ last.viaClose ) =>
            /\ ~rooms[last.room].isActive
            /\ \A i \in DOMAIN last.sent : last.sent[i].to \in open
            /\ LET o == IF last.row.user1Id = last.userId THEN last.row.user2Id
                        ELSE last.row.user1Id
               IN IF Connected(o)
                  THEN last.sent = <<Event(users[o].socket, o, UserLeft)>>
                  ELSE last.sent = <<>> )
  /\ (ClosingLeaves # {}) ~> (ClosingLeaves = {})

\* C8 witness: the cleanup started by a close has ended the session and told
\* the remaining participant user_left.
C8_Witness ==
  /\ Completed("leave") /\ last.viaClose
  /\ Len(last.sent) = 1
  /\ last.sent[1].msg.type = "user_left"
  /\ users[last.userId] = Absent

\* C9: once a session's active flag is false the row never changes again
\* (the flag stays false, the participant fields keep their values).
C9_EndedIsImmutable ==
  [][ \A r \in RoomIds : ~rooms[r].isActive => rooms'[r] = rooms[r] ]_vars

\* C10: when a join has bound its requester as second participant of a
\* waiting session, the requester and the first participant (each as far as
\* it is registered on an open connection) have each got exactly one
\* user_joined event with the session id and the other side's id, display
\* name and registered preferred language.
C10_BothToldUserJoined ==
  ( Completed("join") /\ last.row.user2Id = last.userId /\ last.userId # NoUser ) =>
    LET Told(p, q) ==
          Connected(p) =>
            /\ Cardinality(SentTo(p, "user_joined")) = 1
            /\ \A i \in SentTo(p, "user_joined") :
                 /\ last.sent[i].msg.chatRoomId = last.row.id
                 /\ last.sent[i].msg.otherUser.id = q
                 /\ last.sent[i].msg.otherUser.name = DisplayName(q)
                 /\ users[q] # Absent =>
                      last.sent[i].msg.otherUser.preferredLanguage
                        = users[q].preferredLanguage
    IN Told(last.userId, last.row.user1Id) /\ Told(last.row.user1Id, last.userId)

\* C11: a join goes on to create a session only when its SELECT found no
\* eligible waiting session; it then appends exactly one row (requester as
\* first participant, no second participant, active), and ends by sending a
\* single waiting event to the requester (if registered on an open
\* connection) and nothing to anybody else.
C11_FreshWaitingSession ==
  /\ [][ \A u \in Users :
           /\ NumAt(handlers', "join", u, "insert") > NumAt(handlers, "join", u, "insert")
                => Waiting(u) = {}
           /\ NumAt(handlers', "join", u, "insert") < NumAt(handlers, "join", u, "insert")
                => rooms' = Append(rooms, [user1Id |-> u, user2Id |-> NoUser,
                                           isActive |-> TRUE]) ]_vars
  /\ [] ( ( Completed("join") /\ last.outcome = "waiting" ) =>
            /\ last.row = [id |-> last.room, user1Id |-> last.userId,
                           user2Id |-> NoUser, isActive |-> TRUE]
            /\ rooms[last.room].user1Id = last.userId
            /\ last.sent = IF Connected(last.userId)
                           THEN <<Event(users[last.userId].socket, last.userId,
                                        [type |-> "waiting"])>>
                           ELSE <<>> )

\* C11 witness: a join that created a waiting session has told its requester
\* waiting, and the session is still waiting.
C11_Witness ==
  /\ Completed("join") /\ last.outcome = "waiting"
  /\ Len(last.sent) = 1
  /\ IsWaiting(last.room)

\* C12: joins of different users do not race on a waiting session: once a
\* session has a second participant no join binds another one into it, and
\* every user told user_joined for a session is a participant of it.
C12_NoJoinRace ==
  /\ [][ \A r \in RoomIds :
           rooms[r].user2Id # NoUser => rooms'[r].user2Id = rooms[r].user2Id ]_vars
  /\ [] ( Completed("join") =>
            \A i \in DOMAIN last.sent :
              last.sent[i].msg.type = "user_joined" =>
                last.sent[i].user \in {rooms[last.sent[i].msg.chatRoomId].user1Id,
                                       rooms[last.sent[i].msg.chatRoomId].user2Id} )

\* C13: per-sender ordering: when a message of a sender in a paired session
\* is delivered, no message the relay accepted earlier from the same sender
\* in the same session is still waiting (written to the log, not yet sent)
\* to be delivered after it.
C13_SenderOrder ==
  ( Completed("send") /\ last.outcome = "delivered" /\ last.paired /\ last.sent # <<>> )
  => \A h \in InFlight :
       ~ ( /\ h.kind = "send" /\ h.pc \in {"get", "deliver"}
           /\ h.userId = last.userId /\ h.room = last.room
           /\ h.paired /\ h.seq < last.seq )

\* C14: when the log write of a send_message fails, the handler ends there:
\* the log, the registry and the session table are as they were, the sending
\* connection (if still open) gets exactly one error event, and no message
\* event goes to the sender or to anybody else.
C14_FailedWriteNotDelivered ==
  /\ [][ ( last' # Idle /\ last'.kind = "send" /\ last'.outcome = "failed" )
           => UNCHANGED <<log, users, rooms>> ]_vars
  /\ [] ( ( Completed("send") /\ last.outcome = "failed" ) =>
            /\ last.sent = IF last.sock \in open
                           THEN <<Event(last.sock, NoUser,
                                        [type |-> "error",
                                         error |-> "Failed to send message"])>>
                           ELSE <<>>
            /\ \A i \in DOMAIN last.sent : last.sent[i].msg.type # "message" )

\* C14 witness: the log write of a registered sender's message failed and the
\* sender's connection was told so.
C14_Witness ==
  /\ Completed("send") /\ last.outcome = "failed"
  /\ Len(last.sent) = 1
  /\ Connected(last.userId)

\* C15: messages are relayed only in an active session of two: a record is
\* appended to the log only for a session that is active with both
\* participants and the sender one of them, and a message event goes only to
\* a participant of such a session.
C15_RelayOnlyWhilePaired ==
  /\ [][ log' # log =>
           InPairedSession(log'[Len(log')].senderId, log'[Len(log')].chatRoomId) ]_vars
  /\ [] ( Completed("send") =>
            \A i \in DOMAIN last.sent :
              last.sent[i].msg.type = "message" =>
                InPairedSession(last.sent[i].user, last.room) )

\* the suspended handlers of one kind
OfKind(bag, kind) ==
  LET S == {h \in BagToSet(bag) : h.kind = kind} IN [h \in S |-> bag[h]]

\* C16: a typing request changes neither the log, nor the registry, nor the
\* session table; one from a user not bound to the named session ends at once
\* and forwards nothing; one from a user bound to it forwards at most one
\* typing event (the sender's id and the flag of the request), to the other
\* participant named by the session row and never to the sender.
C16_TypingOnlyToOther ==
  /\ [][ /\ ( OfKind(handlers', "typing") # OfKind(handlers, "typing")
              \/ (last' # Idle /\ last'.kind = "typing") )
              => UNCHANGED <<log, users, rooms, open, closed>>
         /\ \A h \in BagToSet(handlers') :
              ( /\ h.kind = "typing" /\ h.pc = "get"
                /\ CopiesIn(h, handlers') > CopiesIn(h, handlers) )
              => users[h.userId] # Absent /\ users[h.userId].chatRoomId = h.room
         /\ ( requests' # requests /\ last' # Idle /\ last'.kind = "typing" )
              => /\ last'.sent = <<>>
                 /\ users[last'.userId] = Absent
                    \/ users[last'.userId].chatRoomId # last'.room
                 /\ handlers' = handlers ]_vars
  /\ [] ( Completed("typing") =>
            /\ Len(last.sent) <= 1
            /\ \A i \in DOMAIN last.sent :
                 \/ /\ last.sent[i].msg = [type |-> "typing", senderId |-> last.userId,
                                           isTyping |-> last.isTyping]
                    /\ last.sent[i].user # last.userId
                    /\ last.sent[i].user = last.other
                    /\ last.other \in {last.row.user1Id, last.row.user2Id}
                    /\ last.sent[i].to = users[last.other].socket
                 \/ /\ last.outcome = "threw"
                    /\ last.room = NoRoom
                    /\ last.sent[i].msg.type = "error"
                    /\ last.sent[i].to = last.sock )

\* C16 witness: a typing signal of a user in a session of two has been
\* forwarded to the other participant.
C16_Witness ==
  /\ Completed("typing") /\ last.outcome = "forwarded"
  /\ Len(last.sent) = 1
  /\ last.isTyping
  /\ {last.userId, last.other} = {last.row.user1Id, last.row.user2Id}

\* C17: the translation event of a translate_message request goes only to the
\* connection the request came in on, whatever userId the request names.
C17_TranslationToRequester ==
  Completed("translate") =>
    \A i \in DOMAIN last.sent :
      last.sent[i].msg.type = "translation" => last.sent[i].to = last.sock

\* C18: translateText fails exactly when the translation API throws, answers
\* with a non-success HTTP status or with a responseStatus other than 200;
\* the translate_message handler then sends one error event on the requesting
\* connection (if open) and no translation event, and leaves the registry,
\* the session table, the log, the connections and the other handlers as
\* they were.
C18_TranslationFailureIsLocal ==
  /\ [][ ( last' # Idle /\ last'.kind = "translate" ) =>
           /\ UNCHANGED <<users, rooms, log, open, closed, requests>>
           /\ OfKind(handlers', "join") = OfKind(handlers, "join")
           /\ OfKind(handlers', "send") = OfKind(handlers, "send")
           /\ OfKind(handlers', "leave") = OfKind(handlers, "leave")
           /\ OfKind(handlers', "typing") = OfKind(handlers, "typing")
           /\ BagCardinality(handlers') = BagCardinality(handlers) - 1 ]_vars
  /\ [] ( Completed("translate") =>
            /\ last.outcome = "failed"
                 <=> ( \/ last.resp.thrown
                       \/ ~last.resp.ok
                       \/ last.resp.responseStatus # 200 )
            /\ last.outcome = "failed" =>
                 last.sent = IF last.sock \in open
                             THEN <<Event(last.sock, NoUser,
                                          [type |-> "error",
                                           error |-> "Failed to translate message"])>>
                             ELSE <<>> )

\* C18 witness: the translation API answered a registered user's request with
\* a non-success status and the requesting connection got the error event.
C18_Witness ==
  /\ Completed("translate") /\ last.outcome = "failed"
  /\ ~last.resp.thrown /\ ~last.resp.ok
  /\ Len(last.sent) = 1
  /\ Connected(last.userId) /\ users[last.userId].socket = last.sock

\* C19: registration replaces: when a join registers user U (its getUser has
\* returned), the registry entry of U is a new one on the connection of that
\* join, bound to no session; no other entry changes and no connection is
\* closed.  Every event addressed to a user goes out on the connection of
\* that user's registry entry, which is open.
C19_RegistrationReplaces ==
  /\ [][ \A h \in InFlight :
           ( /\ h.kind = "join" /\ h.pc = "getUser"
             /\ CopiesIn(h, handlers') < CopiesIn(h, handlers) )
           => /\ users'[h.userId].socket = h.sock
              /\ users'[h.userId].chatRoomId = NoRoom
              /\ \A v \in Users \ {h.userId} : users'[v] = users[v]
              /\ UNCHANGED <<open, closed>> ]_vars
  /\ [] ( last # Idle =>
            \A i \in DOMAIN last.sent :
              last.sent[i].user # NoUser =>
                /\ users[last.sent[i].user] # Absent
                /\ last.sent[i].to = users[last.sent[i].user].socket
                /\ last.sent[i].to \in open )

\* C19 witness: an event has gone to a user on the connection of a second
\* registration while the connection it replaced is still open.
C19_Witness ==
  /\ last # Idle
  /\ \E i \in DOMAIN last.sent :
       /\ last.sent[i].user # NoUser
       /\ users[last.sent[i].user].replaced \in open
       /\ users[last.sent[i].user].replaced # last.sent[i].to

\* C20: when a connection closes that a user's registry entry has replaced
\* (the user is registered on another connection), the entry and its session
\* binding stay as they are, no cleanup is started for the user, and the
\* close itself ends no session and sends nothing.
C20_StaleCloseIsInert ==
  [][ \A s \in Sockets :
        (s \in open /\ s \notin open') =>
          /\ UNCHANGED rooms
          /\ last' = Idle
          /\ \A u \in Users :
               ( users[u] # Absent /\ users[u].replaced = s /\ users[u].socket # s )
               => /\ users'[u] = users[u]
                  /\ NumAt(handlers', "leave", u, "end")
                       = NumAt(handlers, "leave", u, "end") ]_vars

\* C20 witness: the replaced connection of a user has closed, and the user
\* is still registered on an open connection and bound to an active session.
C20_Witness ==
  \E u \in Users :
    /\ users[u] # Absent
    /\ users[u].replaced \in closed
    /\ users[u].socket \in open
    /\ users[u].chatRoomId \in RoomIds
    /\ rooms[users[u].chatRoomId].isActive
    /\ handlers = EmptyBag

\* C21: when a leave_chat or a close cleanup has ended a session of two, both
\* participants are freed: neither the leaving user nor the remaining one is
\* still bound to the ended session in the registry.
C21_BothFreed ==
  ( /\ Completed("leave")
    /\ last.row.user1Id # NoUser /\ last.row.user2Id # NoUser
    /\ last.userId \in {last.row.user1Id, last.row.user2Id} )
  => \A p \in {last.row.user1Id, last.row.user2Id} :
       users[p] = Absent \/ users[p].chatRoomId # last.room

\* C22: a leave_chat naming a session the requesting user is not a
\* participant of changes nothing: the session row stays as it is and nobody
\* is sent user_left.
C22_ForeignLeaveIsInert ==
  /\ [][ \A h \in InFlight :
           ( /\ h.kind = "leave" /\ ~h.viaClose /\ h.pc = "end"
             /\ h.userId \notin {rooms[h.room].user1Id, rooms[h.room].user2Id}
             /\ CopiesIn(h, handlers') < CopiesIn(h, handlers) )
           => rooms' = rooms ]_vars
  /\ [] ( ( /\ Completed("leave") /\ ~last.viaClose
            /\ last.userId \notin {last.row.user1Id, last.row.user2Id} )
          => last.sent = <<>> )

\* C23: every inbound message the server rejects or ignores is answered with
\* exactly one error event on the connection it came in on.
C23_RejectedGetsError ==
  ( last # Idle /\ last.outcome \in {"rejected", "ignored"} )
  => /\ Len(last.sent) = 1
     /\ last.sent[1].msg.type = "error"
     /\ last.sent[1].to = last.sock

\* C24: an unparseable envelope or a message of an unknown type is answered
\* with one error event on the sending connection; the connection stays open,
\* and the registry, the session table, the log and the suspended handlers
\* are as they were.
C24_BadInputIsInert ==
  [][ ( last' # Idle /\ last'.kind \in {"invalid", "unknown"} ) =>
        /\ last'.sent = <<Event(last'.sock, NoUser,
                                [type |-> "error",
                                 error |-> IF last'.kind = "invalid"
                                           THEN "Invalid message format"
                                           ELSE "Unknown message type"])>>
        /\ last'.sock \in open'
        /\ UNCHANGED <<users, rooms, log, open, closed, handlers>> ]_vars

\* C24 witness: a message of an unknown type came in on a connection with a
\* registered user bound to a session and was answered with the error event.
C24_Witness ==
  /\ Completed("unknown")
  /\ Len(last.sent) = 1
  /\ \E u \in OwnersOf(last.sock) : users[u].chatRoomId # NoRoom

C29_EqualLanguagesCallThrough ==
  ( Completed("translate") /\ last.lang = last.otherLang ) =>
    /\ last.outcome = "failed"
         <=> ( last.resp.thrown \/ ~last.resp.ok \/ last.resp.responseStatus # 200 )
    /\ last.outcome # "failed" =>
         /\ last.outcome = "translated"
         /\ last.resp \in Responses(last.content, last.otherLang)
         /\ \A i \in DOMAIN last.sent :
              last.sent[i].msg = [type |-> "translation",
                                  translatedContent |-> last.resp.translatedText,
                                  originalLanguage |-> last.lang,
                                  targetLanguage |-> last.otherLang]
         /\ Connected(last.userId) => Len(last.sent) = 1
    /\ last.outcome = "failed" =>
         \A i \in DOMAIN last.sent : last.sent[i].msg.type = "error"

\* C29 witness: a request with equal languages was answered with a failure
\* by the API and ended with the error event.
C29_Witness ==
  /\ Completed("translate") /\ last.lang = last.otherLang
  /\ last.outcome = "failed"
  /\ Len(last.sent) = 1

\* C27: a join that finds no eligible waiting session appends a fresh row
\* (next identifier, requester as first participant, no second participant,
\* active) and changes no earlier row; and every session the matchmaker hands
\* back to a join is active at that moment, so a session that has ended is
\* never handed back again.
C27_EndedNeverReturned ==
  /\ [][ \A u \in Users :
           NumAt(handlers', "join", u, "insert") < NumAt(handlers, "join", u, "insert")
             => /\ Len(rooms') = Len(rooms) + 1
                /\ \A r \in RoomIds : rooms'[r] = rooms[r]
                /\ rooms'[Len(rooms')] = [user1Id |-> u, user2Id |-> NoUser,
                                          isActive |-> TRUE] ]_vars
  /\ [] ( \A h \in InFlight :
            ( h.kind = "join" /\ h.pc = "matched" ) => h.row.isActive )

\* C28: the timestamp of every message event a send_message delivers is the
\* creation time the log gave the record it persisted (the time of the
\* INSERT, which may be later than the arrival of the request), and all the
\* events of one delivery, the sender's and the other participant's, carry
\* the same timestamp.
C28_TimestampIsCreationTime ==
  /\ [][ Len(log') > Len(log) => log'[Len(log')].createdAt = requests ]_vars
  /\ [] ( ( Completed("send") /\ last.outcome = "delivered" ) =>
            \E k \in DOMAIN log :
              /\ log[k].chatRoomId = last.room /\ log[k].senderId = last.userId
              /\ log[k].content = last.content
              /\ last.seq <= log[k].createdAt
              /\ \A i \in DOMAIN last.sent :
                   last.sent[i].msg.timestamp = log[k].createdAt )

\* C28 witness: a message persisted after a later request had arrived has
\* been delivered to the sender and to the other participant.
C28_Witness ==
  /\ Completed("send") /\ last.outcome = "delivered"
  /\ last.createdAt > last.seq
  /\ Len(last.sent) = 2
  /\ last.sent[1].to # last.sent[2].to

\* C26: handling a translation request persists nothing: a step in which a
\* translate_message handler starts or ends, or POST /api/translate is
\* answered, leaves the log, the session table, the registry and the
\* dictionary as they were; and an entry enters the dictionary only in a step
\* of the explicit save (POST /api/dictionary answered with the new entry).
C26_TranslationPersistsNothing ==
  [][ /\ ( \/ OfKind(handlers', "translate") # OfKind(handlers, "translate")
           \/ ( last' # Idle /\ last'.kind \in {"translate", "POST /api/translate"} ) )
        => UNCHANGED <<users, rooms, log, dictionary>>
      /\ ( \E i \in DOMAIN dictionary' :
             \A j \in DOMAIN dictionary : dictionary[j] # dictionary'[i] )
        => /\ last'.kind = "POST /api/dictionary" /\ last'.status = 200
           /\ dictionary' = Append(dictionary, last'.body)
           /\ UNCHANGED <<users, rooms, log>> ]_vars

\* C26 witness: POST /api/translate has returned a translation while a user
\* is registered and the dictionary holds a saved entry.
C26_Witness ==
  /\ Completed("POST /api/translate") /\ last.status = 200
  /\ dictionary # <<>>
  /\ \E u \in Users : users[u] # Absent

\* C30: detectLanguage never fails: the route that calls it with a text
\* always answers 200 with a language, which is 'en-GB' when the call to the
\* API threw, the HTTP status was not a success, the answer had no matches or
\* its first match had an empty source, and the source of the first match
\* otherwise.
C30_DetectNeverFails ==
  ( Completed("POST /api/detect-language") /\ last.status # 400 ) =>
    /\ last.status = 200
    /\ last.body.language =
         IF \/ last.resp.thrown
            \/ ~last.resp.ok
            \/ ~last.resp.hasMatches
            \/ last.resp.matches = <<>>
            \/ Head(last.resp.matches).source = ""
         THEN "en-GB"
         ELSE Head(last.resp.matches).source

\* C30 witness: the API answered with two matches, the first with an empty
\* source, and the language returned is the default.
C30_Witness ==
  /\ Completed("POST /api/detect-language") /\ last.status = 200
  /\ last.resp.hasMatches /\ Len(last.resp.matches) = 2
  /\ last.resp.matches[1].source = ""
  /\ last.body.language = "en-GB"

\* C31: the cleanup of a session the user was bound to (leave_chat, or the
\* close of the user's connection) releases that binding only: when it
\* completes while the user is registered and bound to another session, the
\* user's registry entry is left as it is.
C31_CleanupReleasesOwnSessionOnly ==
  [][ ( /\ last' # Idle /\ last'.kind = "leave" /\ last'.bound
        /\ users[last'.userId] # Absent
        /\ users[last'.userId].chatRoomId \notin {NoRoom, last'.room} )
      => users'[last'.userId] = users[last'.userId] ]_vars

\* C32: sender identity is bound to the connection: a send_message, typing
\* or leave_chat request that names a registered user but did not arrive on
\* the connection registered for that user puts no message, typing or
\* user_left event on the wire, writes nothing to the log and ends no session.
C32_IdentityBoundToConnection ==
  /\ [][ \A h \in InFlight :
           ( /\ h.kind \in {"send", "leave"} /\ ~h.viaClose /\ ~h.own
             /\ users[h.userId] # Absent
             /\ h.pc \in {"create", "end"}
             /\ CopiesIn(h, handlers') < CopiesIn(h, handlers) )
           => ( rooms' = rooms /\ log' = log ) ]_vars
  /\ [] ( ( /\ last # Idle /\ last.kind \in {"send", "typing", "leave"}
            /\ ~last.viaClose /\ ~last.own
            /\ users[last.userId] # Absent )
          => \A i \in DOMAIN last.sent : last.sent[i].msg.type = "error" )

\* C33: every join is answered: a join rejected for its userId gets one error
\* event on its connection (if still open), and a join that went through
\* matchmaking ends with exactly one waiting or user_joined event for the
\* joining user when that user is registered on an open connection; so no
\* join ends with the user bound to a session and told nothing.
C33_EveryJoinAnswered ==
  Completed("join") =>
    IF last.outcome = "rejected"
    THEN last.sock \in open =>
           /\ Len(last.sent) = 1
           /\ last.sent[1].msg.type = "error" /\ last.sent[1].to = last.sock
    ELSE Connected(last.userId) =>
           /\ Cardinality(SentTo(last.userId, "waiting")
                          \cup SentTo(last.userId, "user_joined")) = 1
           /\ \A i \in DOMAIN last.sent :
                last.sent[i].user = last.userId
                  => last.sent[i].to = users[last.userId].socket

\* C34: no orphan waiting sessions: whenever no handler is in flight, the
\* first participant of every active waiting session is registered and bound
\* to that session; and a join that was paired as second participant got a
\* session whose first participant is registered and not bound to another
\* session.
C34_NoOrphanWaitingSession ==
  /\ handlers = EmptyBag =>
       \A r \in RoomIds :
         IsWaiting(r) => /\ users[rooms[r].user1Id] # Absent
                         /\ users[rooms[r].user1Id].chatRoomId = r
  /\ ( Completed("join") /\ last.userId # NoUser /\ last.row.user2Id = last.userId ) =>
       /\ users[last.row.user1Id] # Absent
       /\ users[last.row.user1Id].chatRoomId = last.row.id

\* C35: joining again is idempotent for a waiting user: no user is the first
\* participant of two active waiting sessions, and a join of a user who is
\* the first participant of an active waiting session appends no session.
C35_RejoinIdempotent ==
  /\ [][ \A u \in Users :
           ( /\ NumAt(handlers', "join", u, "insert") < NumAt(handlers, "join", u, "insert")
             /\ \E r \in RoomIds : IsWaiting(r) /\ rooms[r].user1Id = u )
           => rooms' = rooms ]_vars
  /\ [] ( \A u \in Users :
            Cardinality({r \in RoomIds : IsWaiting(r) /\ rooms[r].user1Id = u}) <= 1 )

\* C36: a join without a userId, or with a userId the user directory does
\* not know, is answered with the error event of its case on its own
\* connection and with nothing else; its handler never gets past the
\* directory lookup, and the steps in which it starts and ends leave the
\* registry, the session table and the log as they were.
C36_BadJoinIsInert ==
  /\ [][ ( \/ ( last' # Idle /\ last'.kind = "join" /\ last'.outcome = "rejected" )
           \/ \E h \in InFlight' :
                /\ h.kind = "join" /\ h.userId \notin Users
                /\ CopiesIn(h, handlers') > CopiesIn(h, handlers) )
         => UNCHANGED <<users, rooms, log, directory, open, closed>> ]_vars
  /\ [] ( \A h \in InFlight :
            ( h.kind = "join" /\ h.userId \notin Users ) => h.pc = "getUser" )
  /\ [] ( ( Completed("join") /\ last.outcome = "rejected" ) =>
            /\ last.userId \notin Users
            /\ last.sent =
                 IF last.sock \in open
                 THEN <<Event(last.sock, NoUser,
                              [type |-> "error",
                               error |-> IF last.userId = NoUser
                                         THEN "User ID is required"
                                         ELSE "User not found"])>>
                 ELSE <<>> )

\* C36 witness: a join naming an unknown user id has been answered with the
\* error event while another user is registered and waiting in a session.
C36_Witness ==
  /\ Completed("join") /\ last.outcome = "rejected"
  /\ last.userId = UnknownUser
  /\ Len(last.sent) = 1
  /\ \E u \in Users : users[u] # Absent /\ users[u].chatRoomId # NoRoom

\* C37: the language of a registry entry is set only when a join registers
\* the user, to the request's preferredLanguage or else to the directory's
\* value at that moment; a change of the directory leaves the registry alone;
\* every record written to the log and every message event carries the
\* sender's registry language, and every user_joined event shows the
\* registry language of the user it describes.
C37_LanguageCapturedAtJoin ==
  /\ [][ /\ directory' # directory => users' = users
         /\ \A u \in Users :
              users'[u].preferredLanguage # users[u].preferredLanguage
                => \E h \in InFlight :
                     /\ h.kind = "join" /\ h.pc = "getUser" /\ h.userId = u
                     /\ CopiesIn(h, handlers') < CopiesIn(h, handlers)
                     /\ users'[u].preferredLanguage =
                          IF h.lang # NoLang THEN h.lang ELSE directory[u]
         /\ Len(log') > Len(log) =>
              log'[Len(log')].originalLanguage =
                users[log'[Len(log')].senderId].preferredLanguage ]_vars
  /\ [] ( ( Completed("send") /\ last.outcome = "delivered" ) =>
            \A i \in DOMAIN last.sent :
              last.sent[i].msg.originalLanguage = users[last.userId].preferredLanguage )
  /\ [] ( ( Completed("join") /\ last.outcome = "paired" ) =>
            \A i \in DOMAIN last.sent :
              last.sent[i].msg.otherUser.preferredLanguage =
                users[last.sent[i].msg.otherUser.id].preferredLanguage )

\* C37 witness: a user who joined without a language, and whose directory
\* language was changed afterwards, has sent a message that both participants
\* got with the language the directory held at the join.
C37_Witness ==
  /\ Completed("send") /\ last.outcome = "delivered"
  /\ Len(last.sent) = 2
  /\ last.sent[1].msg.originalLanguage = dirLanguage(last.userId)
  /\ directory[last.userId] # dirLanguage(last.userId)

C39_Reconnection ==
  /\ [](client.readyState = "closed" => client.reconnectTimeout)
  /\ [][ (client.readyState = "connecting" /\ client'.readyState = "open")
            => client'.sent = [type |-> "join", socket |-> Ws(client),
                               chatRoomId |-> NoRoom, at |-> requests] ]_vars
  /\ [][ (OnWire /\ client.sent.type = "join" /\ requests' # requests)
            => \E h \in BagToSet(handlers') :
                 /\ h.kind = "join" /\ h.pc = "getUser"
                 /\ h.sock = client.sent.socket
                 /\ h.userId = ClientUser
                 /\ h.lang = directory[ClientUser] ]_vars
  /\ \A n \in 1..(MaxConnections - 1) :
       (client.readyState = "closed" /\ client.ws = n)
          ~> (/\ client.ws = n + 1
              /\ \E h \in InFlight : /\ h.kind = "join" /\ h.pc = "getUser"
                                     /\ h.sock = ClientSockets[n + 1]
                                     /\ h.userId = ClientUser
                                     /\ h.lang = directory[ClientUser])
  /\ [][ \A h \in InFlight :
           (h.userId = ClientUser /\ JoinRegister(h))
              => /\ users'[ClientUser].socket = h.sock
                 /\ users'[ClientUser].chatRoomId = NoRoom ]_vars
  /\ []( ( /\ client.ws > 1
           /\ users[ClientUser] # Absent
           /\ users[ClientUser].socket = Ws(client)
           /\ users[ClientUser].chatRoomId # NoRoom )
         => users[ClientUser].chatRoomId \notin client.prior )

\* C39 witness: the connection has closed twice, and on its third connection
\* the user, who was in a session when an earlier one closed, is bound to a
\* session.
C39_Witness ==
  /\ client.ws = MaxConnections
  /\ client.readyState = "open"
  /\ client.prior # {}
  /\ users[ClientUser] # Absent
  /\ users[ClientUser].socket = Ws(client)
  /\ users[ClientUser].chatRoomId # NoRoom
====
